---- MODULE Spec2Model ----
(***************************************************************************)
(* Model of the Metacritic must-play scraper (src/main.py): listing        *)
(* traversal (sequential and asyncio), record extraction, detail           *)
(* enrichment and the final sort by rank.                                  *)
(*                                                                         *)
(* Conventions.  An Optional[T] value is a set with at most one element:   *)
(* None is {} and a present value x is {x}.  A text is a sequence of       *)
(* one-character strings.  A call that may raise returns a record          *)
(* [exc, val].                                                             *)
(***************************************************************************)
EXTENDS Integers, Sequences, FiniteSets, Bags, TLC

\* ------------------------------------------------------------------ bounds
MaxPage == 3          \* last page index of the run (--end)
MaxConc == 3          \* largest --concurrency value explored (with 1 and 2)
MaxRankLen == 3       \* longest rank text explored for rank_key
MaxCards == 3         \* most cards on a page explored for parse_games
MaxGames == 3         \* most games explored for sort_games_by_rank alone

\* ------------------------------------------------------------------ values
None == {}
Some(x) == {x}
The(o) == CHOOSE x \in o : TRUE

\* "^2" stands for U+00B2 SUPERSCRIPT TWO: str.isdigit() accepts it, int()
\* does not.
DecimalChars == {"0", "1", "2"}
DigitChars == DecimalChars \cup {"^2"}
Chars == DigitChars \cup {".", "x", " "}
DigitVal(c) == CASE c = "0" -> 0 [] c = "1" -> 1 [] c = "2" -> 2

\* Result of a call: exc names the exception that left the call, or "none".
Ok(v) == [exc |-> "none", val |-> v]
Raise(e, v) == [exc |-> e, val |-> v]
ValueError == Raise("ValueError", 0)

\* ------------------------------------------------------------ str methods
\* What a single-period suffix removal would do (not what str.rstrip does).
rstrip_one(s, c) ==
    IF Len(s) > 0 /\ s[Len(s)] = c THEN SubSeq(s, 1, Len(s) - 1) ELSE s

RECURSIVE rstrip(_, _)
\* str.rstrip(chars): removes every trailing occurrence of the character.
rstrip(s, c) ==
    IF Len(s) > 0 /\ s[Len(s)] = c THEN rstrip(SubSeq(s, 1, Len(s) - 1), c)
    ELSE s

RECURSIVE lstrip(_, _)
lstrip(s, c) ==
    IF Len(s) > 0 /\ s[1] = c THEN lstrip(Tail(s), c) ELSE s

\* str.strip(): removes surrounding whitespace.
strip(s) == lstrip(rstrip(s, " "), " ")

\* str.isdigit(): non-empty and every character is a digit character.
isdigit(s) == Len(s) > 0 /\ \A i \in 1..Len(s) : s[i] \in DigitChars

RECURSIVE DecimalValue(_)
DecimalValue(s) ==
    IF s = <<>> THEN 0
    ELSE 10 * DecimalValue(SubSeq(s, 1, Len(s) - 1)) + DigitVal(s[Len(s)])

\* int(text): surrounding whitespace is ignored; anything but a non-empty
\* run of decimal digits raises ValueError.
int(s) ==
    LET t == strip(s)
    IN IF Len(t) > 0 /\ \A i \in 1..Len(t) : t[i] \in DecimalChars
       THEN Ok(DecimalValue(t))
       ELSE ValueError

\* ------------------------------------------------------ sort_games_by_rank
\* rank_key of a rank value (Optional text), src/main.py 37-40.
rank_key(rank) ==
    IF rank # None /\ The(rank) # <<>> /\ isdigit(rstrip(The(rank), "."))
    THEN int(rstrip(The(rank), "."))
    ELSE Ok(0)

Key(g) == rank_key(g.rank).val

\* Unstable variant: an element is placed before the elements of equal key.
insert_before_equal(sortedSeq, g) ==
    LET n == Cardinality({i \in 1..Len(sortedSeq) : Key(sortedSeq[i]) < Key(g)})
    IN SubSeq(sortedSeq, 1, n) \o <<g>> \o SubSeq(sortedSeq, n + 1, Len(sortedSeq))

\* One step of a stable insertion: g goes after every element whose key is
\* not greater (sortedSeq is in ascending key order).
insert(sortedSeq, g) ==
    LET n == Cardinality({i \in 1..Len(sortedSeq) : Key(sortedSeq[i]) <= Key(g)})
    IN SubSeq(sortedSeq, 1, n) \o <<g>> \o SubSeq(sortedSeq, n + 1, Len(sortedSeq))

RECURSIVE sorted_from_head(_)
\* Variant that inserts the elements from the last to the first: elements
\* of equal key come out in reverse order.
sorted_from_head(games) ==
    IF games = <<>> THEN <<>>
    ELSE insert(sorted_from_head(Tail(games)), Head(games))

RECURSIVE sorted(_)
\* sorted(games, key=rank_key): Python's sort is stable.
sorted(games) ==
    IF games = <<>> THEN <<>>
    ELSE insert(sorted(SubSeq(games, 1, Len(games) - 1)), games[Len(games)])

\* Variant that keeps the first of the records that are equal.
sort_games_by_rank_unique(games) ==
    IF \E i \in 1..Len(games) : rank_key(games[i].rank).exc # "none"
    THEN Raise("ValueError", <<>>)
    ELSE LET s == sorted(games)
             keep == {i \in DOMAIN s : \A j \in 1..(i - 1) : s[j] # s[i]}
         IN Ok([k \in 1..Cardinality(keep) |->
                  s[CHOOSE i \in keep :
                      Cardinality({j \in keep : j < i}) = k - 1]])

\* sorted() evaluates the key of every element first; a key that raises
\* aborts the call.
sort_games_by_rank(games) ==
    IF \E i \in 1..Len(games) : rank_key(games[i].rank).exc # "none"
    THEN Raise("ValueError", <<>>)
    ELSE Ok(sorted(games))

\* -------------------------------------------------------------- parse_games
\* The fixed origin that origin-relative references are resolved against.
Origin == "https://www.metacritic.com"

\* A card is one a.c-finderProductCard_container element.  must_play: the
\* card holds img[alt="must-play"].  rank, title, date, metascore: the text
\* of the selected sub-element, None when the selector matches nothing.
\* href: the href attribute.  A date text is a sequence of words.
Card(mp, rank, title, date, metascore, href) ==
    [must_play |-> mp, rank |-> rank, title |-> title, date |-> date,
     metascore |-> metascore, href |-> href]

Game(rank, title, release_date, metascore, url) ==
    [rank |-> rank, title |-> title, release_date |-> release_date,
     metascore |-> metascore, url |-> url, critic_reviews |-> None]

MonthNum == [Jan |-> 1, Feb |-> 2]
DayNum == [d02 |-> 2, d31 |-> 31]
YearNum == [y1998 |-> 1998, y2020 |-> 2020]
DaysIn == <<31, 29>>

\* datetime.strptime(text, "%b %d, %Y") on the words of the text.
strptime(words) ==
    IF /\ Len(words) = 3
       /\ words[1] \in DOMAIN MonthNum
       /\ words[2] \in DOMAIN DayNum
       /\ words[3] \in DOMAIN YearNum
       /\ DayNum[words[2]] <= DaysIn[MonthNum[words[1]]]
    THEN Ok([year |-> YearNum[words[3]], month |-> MonthNum[words[1]],
             day |-> DayNum[words[2]]])
    ELSE Raise("ValueError", [year |-> 0, month |-> 0, day |-> 0])

\* src/main.py 89-91
card_url(card) ==
    IF card.href # None /\ The(card.href) # <<>> /\ Head(The(card.href)) = "/"
    THEN Some(<<Origin>> \o The(card.href))
    ELSE card.href

\* src/main.py 93-98
card_date(card) ==
    IF card.date # None /\ The(card.date) # <<>>
    THEN IF strptime(The(card.date)).exc = "none"
         THEN Some(strptime(The(card.date)).val)
         ELSE None
    ELSE None

\* src/main.py 104: int() is not guarded, a ValueError leaves parse_games.
card_metascore(card) ==
    IF card.metascore # None
    THEN IF int(The(card.metascore)).exc = "none"
         THEN Ok(Some(int(The(card.metascore)).val))
         ELSE Raise("ValueError", None)
    ELSE Ok(None)

card_text(t) == IF t # None THEN Some(strip(The(t))) ELSE None

\* src/main.py 100-106, for a card whose metascore did not raise
card_game(card) ==
    Game(card_text(card.rank), card_text(card.title), card_date(card),
         card_metascore(card).val, card_url(card))

\* src/main.py 76
qualifies(card) == card.must_play

RECURSIVE parse_cards(_)
\* The loop of lines 75-107 over the cards, in document order.
parse_cards(cards) ==
    IF cards = <<>> THEN Ok(<<>>)
    ELSE LET c == Head(cards)
             rest == parse_cards(Tail(cards))
         IN IF ~qualifies(c) THEN rest
            ELSE IF card_metascore(c).exc # "none"
                 THEN Raise("ValueError", <<>>)
            ELSE IF rest.exc # "none" THEN rest
            ELSE Ok(<<card_game(c)>> \o rest.val)

\* parse_games(html): html is the sequence of cards of the page.
parse_games(html) == parse_cards(html)

\* ----------------------------------------------------- parse_critic_reviews
\* A detail page: empty is the empty document (falsy html); span is the text
\* of the first a[data-testid="critic-path"] span, None when there is none.
\* A text is a sequence of whitespace-separated tokens <<kind, n>>: kind
\* "num" is a run of digits of value n, kind "word" with n = 1 is a word
\* that starts with "Critic", any other n is another word.
Num(n) == <<"num", n>>
CriticWord == <<"word", 1>>
OtherWord == <<"word", 2>>

\* The position of re.search(r"(\d+)\s+Critic", text): the leftmost match.
critic_matches(text) ==
    {i \in 1..(Len(text) - 1) : text[i][1] = "num" /\ text[i + 1] = CriticWord}

first_match(text) ==
    CHOOSE i \in critic_matches(text) : \A j \in critic_matches(text) : i <= j

\* src/main.py 112-120
parse_critic_reviews(html) ==
    IF html.span # None /\ critic_matches(The(html.span)) # {}
    THEN Some(The(html.span)[first_match(The(html.span))][2])
    ELSE None

\* -------------------------------------------------------------- the source
\* Texts
T(str) == Some(str)
Jan02 == <<"Jan", "d02", "y2020">>
Feb31 == <<"Feb", "d31", "y1998">>

CardA == Card(TRUE, T(<<"1", ".">>), T(<<"A">>), T(Jan02), T(<<"2", "1">>), T(<<"/", "a">>))
CardB == Card(TRUE, T(<<"x", ".">>), T(<<" ", "B">>), T(Feb31), T(<<"1", "0">>), None)
CardC == Card(TRUE, None, T(<<"C">>), None, None, T(<<"/", "b">>))
CardD == Card(TRUE, T(<<" ", "2", ".", " ">>), T(<<"D">>), T(<<>>), T(<<" ", "2">>), T(<<"h", "d">>))
CardN == Card(FALSE, T(<<"0", ".">>), T(<<"N">>), T(Jan02), T(<<"x">>), T(<<"/", "n">>))
CardS == Card(TRUE, T(<<"2", ".">>), T(<<"S">>), T(Jan02), T(<<"x">>), T(<<"/", "a">>))

\* The listing page bodies the source may serve.
Bodies == {<<CardN>>, <<CardA, CardB>>, <<CardN, CardC>>, <<CardD>>, <<CardS>>}

\* A response: "ok" is status 200 with a body, "status" another status code,
\* "transport" a connection error, "timeout" the expiry of the timeout.
Response(kind, body) == [kind |-> kind, body |-> body]
FailureKinds == {"status", "transport", "timeout"}
PageWorlds ==
    {Response(k, <<>>) : k \in FailureKinds} \cup {Response("ok", b) : b \in Bodies}

\* The answer for a page that has not been requested yet is not known.
Unknown == Response("unknown", <<>>)

DetailPage(empty, span) == [empty |-> empty, span |-> span]

\* What the source answers for a detail reference.
DetailWorld(url) ==
    CASE url = <<Origin, "/", "a">> ->
           Response("ok", DetailPage(FALSE,
               T(<<OtherWord, Num(2), OtherWord, Num(12), CriticWord, Num(7), CriticWord>>)))
      [] url = <<Origin, "/", "b">> -> Response("status", DetailPage(TRUE, None))
      [] url = <<"h", "d">> -> Response("timeout", DetailPage(TRUE, None))
      [] OTHER -> Response("ok", DetailPage(FALSE, None))

\* ------------------------------------------------------------------ fetching
\* fetch_page, src/main.py 45-54: every requests exception, timeouts
\* included, is a RequestException.
fetch_page(resp) ==
    IF resp.kind = "ok" THEN Ok(Some(resp.body)) ELSE Ok(None)

\* fetch_page_async, src/main.py 57-66: the expiry of the total timeout
\* while the response is awaited is asyncio.TimeoutError, which is not an
\* aiohttp.ClientError and leaves the function.
fetch_page_async(resp) ==
    CASE resp.kind = "ok" -> Ok(Some(resp.body))
      [] resp.kind = "timeout" -> Raise("TimeoutError", None)
      [] OTHER -> Ok(None)

\* The stop check never taken.
stops_never(games) == FALSE

\* "if not games: break", src/main.py 179-181 and 220-222
stops(games) == games = <<>>

\* A connector that admits one request too many.
connector_has_slot_off_by_one(inflight, limit) == inflight <= limit

\* aiohttp.TCPConnector(limit=concurrency), src/main.py 155 and 201
connector_has_slot(inflight, limit) == inflight < limit

\* gather taken to be over when one task is.
gather_done_any(t, final) == \E k \in DOMAIN t : t[k] = final

\* await asyncio.gather(*tasks), src/main.py 158 and 212
gather_done(t, final) == \A k \in DOMAIN t : t[k] = final

RECURSIVE accumulate_stop_on_none(_, _)
\* Variant in which a failed page ends the loop instead of being skipped.
accumulate_stop_on_none(htmls, acc) ==
    IF htmls = <<>> THEN Ok(acc)
    ELSE IF Head(htmls) = None THEN Ok(acc)
    ELSE LET r == parse_games(The(Head(htmls)))
         IN IF r.exc # "none" THEN Raise(r.exc, acc)
            ELSE IF stops(r.val) THEN Ok(acc)
            ELSE accumulate_stop_on_none(Tail(htmls), acc \o r.val)

RECURSIVE accumulate(_, _)
\* The loop of src/main.py 214-223 over pages[k..], all_games so far in acc.
accumulate(htmls, acc) ==
    IF htmls = <<>> THEN Ok(acc)
    ELSE IF Head(htmls) = None THEN accumulate(Tail(htmls), acc)
    ELSE LET r == parse_games(The(Head(htmls)))
         IN IF r.exc # "none" THEN Raise(r.exc, acc)
            ELSE IF stops(r.val) THEN Ok(acc)
            ELSE accumulate(Tail(htmls), acc \o r.val)

\* -------------------------------------------------------------------- state
VARIABLES
    C,            \* args.concurrency
    world,        \* what the source has answered for each listing page
    pc,           \* position in main: "listing", "enrich", "sort", "done"
    fault,        \* the exception that left main, "none" while it runs
    step,         \* position inside the current phase
    page,         \* loop variable of the listing loops
    task,         \* per page: state of its listing fetch
    pages,        \* per page: the html its fetch returned
    all_games,    \* the working collection
    gidx,         \* loop variable of fetch_reviews_for_games
    dtask,        \* per game: state of its detail fetch
    output,       \* the result of sort_games_by_rank
    nfetch,       \* per page: listing fetches issued
    dfetch,       \* per game: detail fetches issued
    slept,        \* pacing delays waited so far in the listing phase
    overtaken,    \* a listing fetch returned before that of a lower page
    first_games,  \* the collection of an earlier run over the same world
    input,        \* argument of a function under test
    result        \* its result

vars == <<C, world, pc, fault, step, page, task, pages, all_games, gidx,
          dtask, output, nfetch, dfetch, slept, overtaken, first_games,
          input, result>>

StartPage == 1

\* The values of --concurrency: sequential, the smallest pool and the largest.
Concurrencies == {1, 2, MaxConc}
PageRange == StartPage..MaxPage

runVars == <<C, world, first_games, input, result>>

\* The state at the start of main with the given arguments.
Start(c, w) ==
    /\ C = c
    /\ world = w
    /\ pc = "listing"
    /\ fault = "none"
    /\ step = "loop"
    /\ page = StartPage
    /\ task = [p \in PageRange |-> "none"]
    /\ pages = [p \in PageRange |-> None]
    /\ all_games = <<>>
    /\ gidx = 1
    /\ dtask = <<>>
    /\ output = <<>>
    /\ nfetch = [p \in PageRange |-> 0]
    /\ dfetch = <<>>
    /\ slept = 0
    /\ overtaken = FALSE

Init ==
    /\ \E c \in Concurrencies : Start(c, [p \in PageRange |-> Unknown])
    /\ first_games = None
    /\ input = <<>>
    /\ result = <<>>

Running == fault = "none"

\* What the source may answer for page p: anything the first time, the same
\* answer when the page is requested again by a later run.
Answers(p) == IF world[p] = Unknown THEN PageWorlds ELSE {world[p]}

Inflight(t) == Cardinality({k \in DOMAIN t : t[k] = "inflight"})

\* main, src/main.py 307-314: the enrichment phase begins over games.
BeginEnrich(games) ==
    /\ pc' = "enrich"
    /\ step' = "loop"
    /\ all_games' = games
    /\ gidx' = 1
    /\ dtask' = [i \in 1..Len(games) |-> "pending"]
    /\ dfetch' = [i \in 1..Len(games) |-> 0]

\* ------------------------------------------------- scrape_games (C = 1)
skip_page_retry(p) == p

\* src/main.py 174-176: `continue` takes the loop to the next page of the
\* range.
skip_page(p) == p + 1

after_continue_paced == "sleep"

\* src/main.py 176: `continue` leaves the body before the delay of lines
\* 185-186, the loop goes on at its head.
after_continue == "loop"

\* src/main.py 166-173: the next page is requested.
SeqFetch ==
    /\ Running /\ pc = "listing" /\ C = 1 /\ step = "loop" /\ page <= MaxPage
    /\ task' = [task EXCEPT ![page] = "inflight"]
    /\ nfetch' = [nfetch EXCEPT ![page] = @ + 1]
    /\ step' = "await"
    /\ UNCHANGED <<pc, fault, page, pages, all_games, gidx, dtask, output,
                   dfetch, slept,
                   overtaken, runVars>>

\* src/main.py 173-183: the response arrives and the loop body runs up to
\* the pacing delay.
SeqReturn ==
    /\ Running /\ pc = "listing" /\ C = 1 /\ step = "await"
    /\ \E resp \in Answers(page) :
       LET html == fetch_page(resp).val
           r == parse_games(The(html))
       IN /\ world' = [world EXCEPT ![page] = resp]
          /\ task' = [task EXCEPT ![page] = "returned"]
          /\ pages' = [pages EXCEPT ![page] = html]
          /\ IF html = None
             THEN /\ page' = skip_page(page)
                  /\ step' = after_continue
                  /\ UNCHANGED <<pc, fault, all_games, gidx, dtask, dfetch>>
             ELSE IF r.exc # "none"
             THEN /\ fault' = r.exc
                  /\ UNCHANGED <<pc, step, page, all_games, gidx, dtask, dfetch>>
             ELSE IF stops(r.val)
             THEN /\ BeginEnrich(all_games)
                  /\ UNCHANGED <<fault, page>>
             ELSE /\ all_games' = all_games \o r.val
                  /\ step' = "sleep"
                  /\ UNCHANGED <<pc, fault, page, gidx, dtask, dfetch>>
    /\ UNCHANGED <<output, nfetch, slept, overtaken, C, first_games, input,
                   result>>

\* src/main.py 185-186: the pacing delay is over.
SeqSleep ==
    /\ Running /\ pc = "listing" /\ C = 1 /\ step = "sleep"
    /\ page' = page + 1
    /\ step' = "loop"
    /\ slept' = slept + 1
    /\ UNCHANGED <<pc, fault, task, pages, all_games, gidx, dtask, output,
                   nfetch, dfetch,
                   overtaken, runVars>>

\* src/main.py 166, 188-189: the range is exhausted.
SeqExhausted ==
    /\ Running /\ pc = "listing" /\ C = 1 /\ step = "loop" /\ page > MaxPage
    /\ BeginEnrich(all_games)
    /\ UNCHANGED <<fault, page, task, pages, output, nfetch, slept,
                   overtaken, runVars>>

\* -------------------------------------------- scrape_games_async (C > 1)
\* src/main.py 204-209: the coroutine of the page is created (not started).
AsyncSchedule ==
    /\ Running /\ pc = "listing" /\ C > 1 /\ step = "loop" /\ page <= MaxPage
    /\ task' = [task EXCEPT ![page] = "created"]
    /\ step' = "sleep"
    /\ UNCHANGED <<pc, fault, page, pages, all_games, gidx, dtask, output,
                   nfetch, dfetch, slept,
                   overtaken, runVars>>

\* src/main.py 210: the delay of the scheduling loop is over.
AsyncPace ==
    /\ Running /\ pc = "listing" /\ C > 1 /\ step = "sleep"
    /\ page' = page + 1
    /\ step' = "loop"
    /\ slept' = slept + 1
    /\ UNCHANGED <<pc, fault, task, pages, all_games, gidx, dtask, output,
                   nfetch, dfetch,
                   overtaken, runVars>>

\* src/main.py 212: gather starts every coroutine as a task.
AsyncGather ==
    /\ Running /\ pc = "listing" /\ C > 1 /\ step = "loop" /\ page > MaxPage
    /\ task' = [p \in PageRange |-> "pending"]
    /\ step' = "gather"
    /\ UNCHANGED <<pc, fault, page, pages, all_games, gidx, dtask, output,
                   nfetch, dfetch, slept,
                   overtaken, runVars>>

\* src/main.py 60: the request of page p gets a connection of the connector.
AsyncAcquire(p) ==
    /\ Running /\ pc = "listing" /\ step = "gather" /\ task[p] = "pending"
    /\ connector_has_slot(Inflight(task), C)
    /\ task' = [task EXCEPT ![p] = "inflight"]
    /\ nfetch' = [nfetch EXCEPT ![p] = @ + 1]
    /\ UNCHANGED <<pc, fault, step, page, pages, all_games, gidx, dtask,
                   output, dfetch, slept,
                   overtaken, runVars>>

\* A task that is not over when the exception leaves gather is cancelled
\* as the session closes and asyncio.run tears the loop down.
Cancelled(t, k) == [j \in DOMAIN t |->
                      IF j = k THEN "returned"
                      ELSE IF t[j] \in {"returned", "done"} THEN t[j]
                      ELSE "cancelled"]

\* src/main.py 60-66: fetch_page_async of page p returns or raises.
AsyncReturn(p) ==
    /\ Running /\ pc = "listing" /\ step = "gather" /\ task[p] = "inflight"
    /\ \E resp \in Answers(p) :
       LET r == fetch_page_async(resp)
       IN /\ world' = [world EXCEPT ![p] = resp]
          /\ IF r.exc # "none"
             THEN /\ fault' = r.exc
                  /\ task' = Cancelled(task, p)
                  /\ UNCHANGED pages
             ELSE /\ task' = [task EXCEPT ![p] = "returned"]
                  /\ pages' = [pages EXCEPT ![p] = r.val]
                  /\ UNCHANGED fault
    /\ overtaken' = (overtaken \/ \E q \in PageRange :
                                     q < p /\ task[q] \in {"pending", "inflight"})
    /\ UNCHANGED <<pc, step, page, all_games, gidx, dtask, output, nfetch,
                   dfetch, slept, C, first_games, input, result>>

PagesSeq_reversed == [k \in 1..(MaxPage - StartPage + 1) |-> pages[MaxPage - k + 1]]

\* The results of gather, in the order of the tasks passed to it.
PagesSeq == [k \in 1..(MaxPage - StartPage + 1) |-> pages[StartPage + k - 1]]

\* src/main.py 212-226: gather is over, the pages are accumulated in index
\* order.
AsyncCollect ==
    /\ Running /\ pc = "listing" /\ step = "gather"
    /\ gather_done(task, "returned")
    /\ LET r == accumulate(PagesSeq, <<>>)
       IN IF r.exc # "none"
          THEN /\ fault' = r.exc
               /\ UNCHANGED <<pc, step, all_games, gidx, dtask, dfetch>>
          ELSE /\ BeginEnrich(r.val)
               /\ UNCHANGED fault
    /\ UNCHANGED <<page, task, pages, output, nfetch, slept,
                   overtaken, runVars>>

\* ----------------------------------------------------------- enrichment
HasUrl(g) == g.url # None /\ The(g.url) # <<>>

\* src/main.py 128-129 and 140-141: the new value of game.critic_reviews.
reviews_of(g, html) ==
    IF html # None /\ ~The(html).empty
    THEN parse_critic_reviews(The(html))
    ELSE g.critic_reviews

set_reviews_shared(games, i, v) ==
    [j \in DOMAIN games |-> [games[j] EXCEPT !.critic_reviews = v]]

\* src/main.py 129 and 141: game.critic_reviews = ... on the game of the
\* call; every Game is an object of its own.
set_reviews(games, i, v) == [games EXCEPT ![i].critic_reviews = v]

\* fetch_reviews_for_games / fetch_critic_reviews (C = 1)
\* src/main.py 147-148, 125-126: a game without url is passed over.
SeqDetailSkip ==
    /\ Running /\ pc = "enrich" /\ C = 1 /\ step = "loop"
    /\ gidx <= Len(all_games) /\ ~HasUrl(all_games[gidx])
    /\ dtask' = [dtask EXCEPT ![gidx] = "done"]
    /\ gidx' = gidx + 1
    /\ UNCHANGED <<pc, fault, step, page, task, pages, all_games, output,
                   nfetch, dfetch, slept,
                   overtaken, runVars>>

\* src/main.py 127: the detail page of the game is requested.
SeqDetailFetch ==
    /\ Running /\ pc = "enrich" /\ C = 1 /\ step = "loop"
    /\ gidx <= Len(all_games) /\ HasUrl(all_games[gidx])
    /\ dtask' = [dtask EXCEPT ![gidx] = "inflight"]
    /\ dfetch' = [dfetch EXCEPT ![gidx] = @ + 1]
    /\ step' = "await"
    /\ UNCHANGED <<pc, fault, page, task, pages, all_games, gidx, output,
                   nfetch, slept,
                   overtaken, runVars>>

\* src/main.py 127-129: the response arrives.
SeqDetailReturn ==
    /\ Running /\ pc = "enrich" /\ C = 1 /\ step = "await"
    /\ LET g == all_games[gidx]
           html == fetch_page(DetailWorld(The(g.url))).val
       IN all_games' = set_reviews(all_games, gidx, reviews_of(g, html))
    /\ dtask' = [dtask EXCEPT ![gidx] = "sleeping"]
    /\ step' = "sleep"
    /\ UNCHANGED <<pc, fault, page, task, pages, gidx, output, nfetch,
                   dfetch, slept,
                   overtaken, runVars>>

\* src/main.py 130: the pacing delay is over.
SeqDetailSleep ==
    /\ Running /\ pc = "enrich" /\ C = 1 /\ step = "sleep"
    /\ dtask' = [dtask EXCEPT ![gidx] = "done"]
    /\ gidx' = gidx + 1
    /\ step' = "loop"
    /\ UNCHANGED <<pc, fault, page, task, pages, all_games, output, nfetch,
                   dfetch, slept,
                   overtaken, runVars>>

\* src/main.py 147, 316: the loop is over.
SeqEnrichExhausted ==
    /\ Running /\ pc = "enrich" /\ C = 1 /\ step = "loop"
    /\ gidx > Len(all_games)
    /\ pc' = "sort"
    /\ UNCHANGED <<fault, step, page, task, pages, all_games, gidx, dtask,
                   output, nfetch, dfetch, slept,
                   overtaken, runVars>>

\* fetch_reviews_for_games_async / fetch_critic_reviews_async (C > 1)
\* src/main.py 137-138: the task of a game without url returns at once.
AsyncDetailSkip(i) ==
    /\ Running /\ pc = "enrich" /\ C > 1
    /\ dtask[i] = "pending" /\ ~HasUrl(all_games[i])
    /\ dtask' = [dtask EXCEPT ![i] = "done"]
    /\ UNCHANGED <<pc, fault, step, page, task, pages, all_games, gidx,
                   output, nfetch, dfetch, slept,
                   overtaken, runVars>>

\* src/main.py 139, 60: the request gets a connection of the connector.
AsyncDetailAcquire(i) ==
    /\ Running /\ pc = "enrich" /\ C > 1
    /\ dtask[i] = "pending" /\ HasUrl(all_games[i])
    /\ connector_has_slot(Inflight(dtask), C)
    /\ dtask' = [dtask EXCEPT ![i] = "inflight"]
    /\ dfetch' = [dfetch EXCEPT ![i] = @ + 1]
    /\ UNCHANGED <<pc, fault, step, page, task, pages, all_games, gidx,
                   output, nfetch, slept,
                   overtaken, runVars>>

\* src/main.py 139-141: fetch_page_async returns or raises.
AsyncDetailReturn(i) ==
    /\ Running /\ pc = "enrich" /\ C > 1 /\ dtask[i] = "inflight"
    /\ LET g == all_games[i]
           r == fetch_page_async(DetailWorld(The(g.url)))
       IN IF r.exc # "none"
          THEN /\ fault' = r.exc
               /\ dtask' = Cancelled(dtask, i)
               /\ UNCHANGED all_games
          ELSE /\ all_games' = set_reviews(all_games, i, reviews_of(g, r.val))
               /\ dtask' = [dtask EXCEPT ![i] = "sleeping"]
               /\ UNCHANGED fault
    /\ UNCHANGED <<pc, step, page, task, pages, gidx, output, nfetch, dfetch,
                   slept,
                   overtaken, runVars>>

\* src/main.py 142: the pacing delay of the task is over.
AsyncDetailSleep(i) ==
    /\ Running /\ pc = "enrich" /\ C > 1 /\ dtask[i] = "sleeping"
    /\ dtask' = [dtask EXCEPT ![i] = "done"]
    /\ UNCHANGED <<pc, fault, step, page, task, pages, all_games, gidx,
                   output, nfetch, dfetch, slept,
                   overtaken, runVars>>

\* src/main.py 158, 316: gather is over.
AsyncEnrichDone ==
    /\ Running /\ pc = "enrich" /\ C > 1
    /\ gather_done(dtask, "done")
    /\ pc' = "sort"
    /\ UNCHANGED <<fault, step, page, task, pages, all_games, gidx, dtask,
                   output, nfetch, dfetch, slept,
                   overtaken, runVars>>

\* ------------------------------------------------------------------- main
\* src/main.py 316: games = sort_games_by_rank(games)
Sort ==
    /\ Running /\ pc = "sort"
    /\ LET r == sort_games_by_rank(all_games)
       IN IF r.exc # "none"
          THEN fault' = r.exc /\ UNCHANGED <<pc, output>>
          ELSE output' = r.val /\ pc' = "done" /\ UNCHANGED fault
    /\ UNCHANGED <<step, page, task, pages, all_games, gidx, dtask, nfetch,
                   dfetch, slept,
                   overtaken, runVars>>

Next ==
    \/ SeqFetch \/ SeqReturn \/ SeqSleep \/ SeqExhausted
    \/ AsyncSchedule \/ AsyncPace \/ AsyncGather
    \/ \E p \in PageRange : AsyncAcquire(p)
    \/ \E p \in PageRange : AsyncReturn(p)
    \/ AsyncCollect
    \/ SeqDetailSkip \/ SeqDetailFetch \/ SeqDetailReturn \/ SeqDetailSleep
    \/ SeqEnrichExhausted
    \/ \E i \in DOMAIN dtask : AsyncDetailSkip(i)
    \/ \E i \in DOMAIN dtask : AsyncDetailAcquire(i)
    \/ \E i \in DOMAIN dtask : AsyncDetailReturn(i)
    \/ \E i \in DOMAIN dtask : AsyncDetailSleep(i)
    \/ AsyncEnrichDone
    \/ Sort

Spec == Init /\ [][Next]_vars

\* ------------------------------------------------ a second run of main
\* The same source is scraped again with --concurrency > 1 after a run with
\* --concurrency 1 whose scrape_games has returned; the collection of the
\* first run is kept for comparison.
Rerun ==
    /\ Running /\ first_games = None /\ C = 1
    /\ pc = "enrich" /\ step = "loop" /\ gidx = 1
    /\ first_games' = Some(all_games)
    /\ \E c \in Concurrencies \ {1} : C' = c
    /\ pc' = "listing"
    /\ page' = StartPage
    /\ task' = [p \in PageRange |-> "none"]
    /\ pages' = [p \in PageRange |-> None]
    /\ all_games' = <<>>
    /\ dtask' = <<>>
    /\ nfetch' = [p \in PageRange |-> 0]
    /\ dfetch' = <<>>
    /\ slept' = 0
    /\ overtaken' = FALSE
    /\ UNCHANGED <<world, fault, step, gidx, output, input, result>>

InitModes ==
    /\ Start(1, [p \in PageRange |-> Unknown])
    /\ first_games = None
    /\ input = <<>>
    /\ result = <<>>

NextModes == Next \/ Rerun

SpecModes == InitModes /\ [][NextModes]_vars

\* ------------------------------------------- functions called on their own
\* main is not running: a function is called with the argument in input.
Parked ==
    /\ C = 1
    /\ world = [p \in PageRange |-> Unknown]
    /\ pc = "call"
    /\ fault = "none"
    /\ step = "loop"
    /\ page = StartPage
    /\ task = [p \in PageRange |-> "none"]
    /\ pages = [p \in PageRange |-> None]
    /\ all_games = <<>>
    /\ gidx = 1
    /\ dtask = <<>>
    /\ output = <<>>
    /\ nfetch = [p \in PageRange |-> 0]
    /\ dfetch = <<>>
    /\ slept = 0
    /\ overtaken = FALSE
    /\ first_games = None
    /\ result = <<>>

parkedVars == <<C, world, fault, step, page, task, pages, all_games, gidx,
                dtask, output, nfetch, dfetch, slept, overtaken, first_games,
                input>>

SeqsUpTo(S, n) == UNION {[1..k -> S] : k \in 0..n}

\* rank_key
RankValues == {None} \cup {Some(t) : t \in SeqsUpTo(Chars, MaxRankLen)}

InitRank == Parked /\ input \in RankValues

CallRankKey ==
    /\ pc = "call"
    /\ result' = rank_key(input)
    /\ pc' = "returned"
    /\ UNCHANGED parkedVars

SpecRank == InitRank /\ [][CallRankKey]_vars

\* parse_games
CardE == Card(TRUE, T(<<"2">>), None, T(<<"???">>), T(<<>>), T(<<"/", "b">>))
ParseCards == {CardA, CardB, CardC, CardD, CardN, CardS, CardE}

InitParse == Parked /\ input \in SeqsUpTo(ParseCards, MaxCards)

CallParseGames ==
    /\ pc = "call"
    /\ result' = parse_games(input)
    /\ pc' = "returned"
    /\ UNCHANGED parkedVars

SpecParse == InitParse /\ [][CallParseGames]_vars

\* sort_games_by_rank, and a second call on the list it returned
SortRanks == {None, T(<<"1", ".">>), T(<<"2", ".">>), T(<<"1", ".", ".">>),
              T(<<"^2">>)}
SortGames == {Game(r, T(<<t>>), None, None, None) :
                r \in SortRanks, t \in {"A", "B"}}

InitSort == Parked /\ input \in SeqsUpTo(SortGames, MaxGames)

CallSort ==
    /\ pc = "call"
    /\ result' = sort_games_by_rank(input)
    /\ pc' = "returned"
    /\ UNCHANGED parkedVars

\* The list returned by the first call is sorted again; a call that raised
\* returned no list.
CallSortAgain ==
    /\ pc = "returned" /\ result.exc = "none"
    /\ output' = sort_games_by_rank(result.val)
    /\ pc' = "resorted"
    /\ UNCHANGED <<C, world, fault, step, page, task, pages, all_games, gidx,
                   dtask, nfetch, dfetch, slept, overtaken, first_games,
                   input, result>>

SpecSort == InitSort /\ [][CallSort \/ CallSortAgain]_vars

\* =================================================================== claims
PageOk(p) == world[p].kind = "ok"
Parses(p) == PageOk(p) /\ parse_games(world[p].body).exc = "none"
PageResult(p) == parse_games(world[p].body).val
EmptyResult(p) == Parses(p) /\ PageResult(p) = <<>>

StripReviews(games) ==
    [i \in DOMAIN games |-> [games[i] EXCEPT !.critic_reviews = None]]

RECURSIVE ConcatPages(_, _)
\* The records of the successfully fetched pages lo..hi, in page order.
ConcatPages(lo, hi) ==
    IF lo > hi THEN <<>>
    ELSE ConcatPages(lo, hi - 1) \o (IF PageOk(hi) THEN PageResult(hi) ELSE <<>>)

Min(S) == CHOOSE x \in S : \A y \in S : x <= y

\* The first page of the range that has been served with an empty
\* PageResult, or MaxPage + 1.
FirstEmpty == Min({p \in PageRange : EmptyResult(p)} \cup {MaxPage + 1})

\* C1: in scrape_games, once a successfully fetched page has given an empty
\* PageResult the traversal is over, every page up to it was fetched exactly
\* once, no later page is fetched, and the collection is the concatenation
\* of the records of the earlier successfully fetched pages.
C1_SequentialStopsAtEmptyPage ==
    C = 1 =>
      \A p \in PageRange :
        (task[p] = "returned" /\ EmptyResult(p)) =>
           /\ pc # "listing"
           /\ \A q \in PageRange : nfetch[q] = (IF q <= p THEN 1 ELSE 0)
           /\ StripReviews(all_games) = ConcatPages(StartPage, p - 1)

C1_Witness ==
    /\ C = 1 /\ pc = "done"
    /\ \E p \in PageRange :
         /\ p < MaxPage /\ p > StartPage
         /\ task[p] = "returned" /\ EmptyResult(p)
         /\ nfetch[p + 1] = 0 /\ world[p + 1] = Unknown
         /\ Len(all_games) > 0

\* C2: no fetch failure (a non-success status, a transport error or a
\* timeout) leaves the traversal or the enrichment as an unhandled fault.
C2_NoFetchFailureAborts == fault # "TimeoutError"

\* C3: parse_games emits a record for every card that carries the must-play
\* marker, also when its score text is not an integer: that record has the
\* score absent and its other fields as with a well-formed score.
WellScored(card) == [card EXCEPT !.metascore = Some(<<"1">>)]
BadScore(card) == card.metascore # None /\ int(The(card.metascore)).exc # "none"
Qualifying(cards) == SelectSeq(cards, LAMBDA c : c.must_play)

C3_MalformedScoreDegrades ==
    pc = "returned" =>
      /\ result.exc = "none"
      /\ Len(result.val) = Len(Qualifying(input))
      /\ \A j \in 1..Len(Qualifying(input)) :
           LET c == Qualifying(input)[j]
           IN result.val[j] =
                IF BadScore(c)
                THEN [card_game(WellScored(c)) EXCEPT !.metascore = None]
                ELSE card_game(c)

\* C4: in scrape_games_async every page of the range is fetched, exactly
\* once, whether or not a page is empty, and the returned collection is the
\* records of the successfully fetched pages below the first successfully
\* fetched page with an empty PageResult.
\* scrape_games_async has just returned: no enrichment step was taken yet.
AsyncListingReturned ==
    C > 1 /\ pc = "enrich" /\ \A i \in DOMAIN dtask : dtask[i] = "pending"

C4_AsyncFetchesAllAccumulatesPrefix ==
    /\ (C > 1 /\ pc \in {"enrich", "sort", "done"}) =>
          \A p \in PageRange : nfetch[p] = 1 /\ task[p] = "returned"
    /\ AsyncListingReturned =>
          \A fe \in {FirstEmpty} : all_games = ConcatPages(StartPage, fe - 1)

C4_Witness ==
    /\ C > 1 /\ pc = "done"
    /\ \E p \in PageRange :
         /\ p < MaxPage /\ p > StartPage
         /\ EmptyResult(p) /\ ~EmptyResult(p - 1) /\ PageOk(p - 1)
         /\ nfetch[p + 1] = 1 /\ Parses(p + 1) /\ ~EmptyResult(p + 1)
         /\ Len(all_games) > 0

\* C5: over the same source with no empty page in the range, the run with
\* --concurrency 1 and the run with --concurrency > 1 both return from the
\* listing phase, with collections that are equal as multisets.
SeqToBag(q) == [x \in {q[i] : i \in DOMAIN q} |->
                   Cardinality({i \in DOMAIN q : q[i] = x})]

ListingEnded == pc # "listing" \/ fault # "none"

C5_ModeEquivalence ==
    (/\ first_games # None
     /\ \A p \in PageRange : ~EmptyResult(p)
     /\ ListingEnded) =>
       /\ pc # "listing"
       /\ Len(all_games) = Len(The(first_games))
       /\ SeqToBag(StripReviews(all_games)) = SeqToBag(The(first_games))

\* C6: the fetches that are outstanding at the same time, listing and
\* detail together, never exceed the concurrency bound.
C6_ConcurrencyBound == Inflight(task) + Inflight(dtask) <= C

C6_Witness ==
    /\ C = 2 /\ pc = "enrich"
    /\ Inflight(dtask) = 2
    /\ \E i \in DOMAIN dtask : dtask[i] = "pending" /\ HasUrl(all_games[i])
    /\ \A p \in PageRange : nfetch[p] = 1

\* C7 as stated: the key is that of "strip exactly one trailing period, then
\* parse the remainder as a non-negative integer, else 0".
IsDecimal(t) == Len(t) > 0 /\ \A i \in 1..Len(t) : t[i] \in DecimalChars
StripOnePeriod(t) ==
    IF Len(t) > 0 /\ t[Len(t)] = "." THEN SubSeq(t, 1, Len(t) - 1) ELSE t
RECURSIVE StripAllPeriods(_)
StripAllPeriods(t) ==
    IF Len(t) > 0 /\ t[Len(t)] = "." THEN StripAllPeriods(SubSeq(t, 1, Len(t) - 1))
    ELSE t
ParseOrZero(t) == IF IsDecimal(t) THEN DecimalValue(t) ELSE 0

OnlyDigitChars(t) == Len(t) > 0 /\ \A i \in 1..Len(t) : t[i] \in DigitChars

EnrichmentEnded ==
    \/ pc \in {"sort", "done"}
    \/ pc = "enrich" /\ fault # "none"

ExpectedReviews(g) ==
    IF HasUrl(g) /\ DetailWorld(The(g.url)).kind = "ok"
    THEN LET sp == DetailWorld(The(g.url)).body.span
         IN IF sp # None /\ critic_matches(The(sp)) # {}
            THEN Some(The(sp)[Min(critic_matches(The(sp)))][2])
            ELSE None
    ELSE None

ListedGames == {ConcatPages(StartPage, fe - 1) : fe \in {FirstEmpty}}

C8_EnrichmentIsolatesFailures ==
    EnrichmentEnded =>
       /\ pc # "enrich"
       /\ \A listed \in ListedGames :
            /\ Len(all_games) = Len(listed)
            /\ \A i \in DOMAIN all_games :
                 all_games[i] = [listed[i] EXCEPT
                                   !.critic_reviews = ExpectedReviews(listed[i])]

\* C9: the output of sort_games_by_rank is a permutation of the working
\* collection, ascending in the rank key, and the records of one key keep
\* the order they have in the working collection.
WithKey(games, k) == SelectSeq(games, LAMBDA g : Key(g) = k)
KeysOf(games) == {Key(games[i]) : i \in DOMAIN games}

C9_FinalOrdering ==
    pc = "done" =>
       /\ SeqToBag(output) = SeqToBag(all_games)
       /\ \A i, j \in DOMAIN output : i < j => Key(output[i]) <= Key(output[j])
       /\ \A k \in KeysOf(all_games) : WithKey(output, k) = WithKey(all_games, k)

C9_Witness ==
    /\ pc = "done"
    /\ output # all_games
    /\ \E i, j \in DOMAIN all_games :
         /\ i < j /\ Key(all_games[i]) = Key(all_games[j])
         /\ all_games[i] # all_games[j]
    /\ \E k \in KeysOf(all_games) : k = 0

\* C10: a detail fetch is issued only when the listing phase is over and
\* no listing fetch is outstanding or still to be issued, and the sort
\* happens only when every enrichment unit of work is over.
DetailIssued == \E i \in DOMAIN dfetch : dfetch[i] > 0

C10_PhaseOrdering ==
    /\ [](DetailIssued =>
            /\ pc # "listing"
            /\ \A p \in PageRange : task[p] \in {"none", "returned"})
    /\ [](pc = "done" => \A i \in DOMAIN dtask : dtask[i] = "done")
    /\ [][DetailIssued => nfetch' = nfetch]_vars
    /\ [][pc = "done" => (all_games' = all_games /\ dfetch' = dfetch)]_vars

C10_Witness ==
    /\ pc = "done" /\ C > 1
    /\ Cardinality({i \in DOMAIN dfetch : dfetch[i] = 1}) >= 2
    /\ \A p \in PageRange : nfetch[p] = 1

\* C11: in scrape_games_async a pacing delay is waited only for a page
\* whose fetch has returned: while the delay of the current page runs, the
\* fetch of that page is over, and the delays waited so far never outnumber
\* the fetches that have returned.
C11_PacingFollowsFetch ==
    (C > 1 /\ pc = "listing") =>
       /\ step = "sleep" => task[page] = "returned"
       /\ slept <= Cardinality({p \in PageRange : task[p] = "returned"})

\* C12: parse_games returns normally and its records are, in document
\* order, one for each card that carries the must-play marker and none for
\* any other card, whatever the other fields of the cards hold.
C12_RecordIffMarker ==
    pc = "returned" =>
       /\ result.exc = "none"
       /\ [j \in 1..Len(result.val) |-> result.val[j].title] =
            [j \in 1..Len(Qualifying(input)) |->
               card_text(Qualifying(input)[j].title)]

\* C13: when scrape_games_async returns, whatever the order in which the
\* fetches returned, the collection is made of one contiguous block per
\* accumulated page, the blocks in ascending page order, each block the
\* PageResult of its page in document order.
Offset(p) == Len(ConcatPages(StartPage, p - 1))

C13_AccumulationOrder ==
    AsyncListingReturned =>
       \A fe \in {FirstEmpty} :
          /\ Len(all_games) = Offset(fe)
          /\ \A p \in StartPage..(fe - 1) :
               PageOk(p) =>
                 SubSeq(all_games, Offset(p) + 1, Offset(p + 1)) = PageResult(p)

C13_Witness ==
    /\ AsyncListingReturned /\ overtaken
    /\ \E p, q \in PageRange :
         /\ p < q /\ q < FirstEmpty /\ PageOk(p) /\ PageOk(q)
         /\ Len(PageResult(p)) > 1 /\ PageResult(q) # <<>>
         /\ PageResult(p) # PageResult(q)

\* C14: no listing page and no record's detail page is requested more than
\* once in a run, and a fetch that is over, whatever its outcome, is not
\* issued again.
C14_NoRetries ==
    /\ \A p \in PageRange :
         /\ nfetch[p] <= 1
         /\ task[p] \in {"inflight", "returned"} => nfetch[p] = 1
    /\ \A i \in DOMAIN dfetch :
         /\ dfetch[i] <= 1
         /\ dtask[i] \in {"inflight", "sleeping"} => dfetch[i] = 1

C14_Witness ==
    /\ pc = "done"
    /\ \E p \in PageRange : world[p].kind \in FailureKinds /\ nfetch[p] = 1
    /\ \E i \in DOMAIN dfetch :
         /\ dfetch[i] = 1
         /\ DetailWorld(The(all_games[i].url)).kind \in FailureKinds

\* What a step may change once the listing phase is over.
FrameStep ==
    pc \in {"enrich", "sort", "done"} =>
       /\ StripReviews(all_games') = StripReviews(all_games)
       /\ \A i \in DOMAIN all_games :
            /\ all_games'[i] # all_games[i] =>
                 /\ dtask[i] = "inflight" /\ dtask'[i] = "sleeping"
                 /\ \A j \in DOMAIN all_games \ {i} :
                      all_games'[j] = all_games[j]
            /\ dtask'[i] = "inflight" => dtask[i] \in {"pending", "inflight"}
            /\ ~HasUrl(all_games[i]) =>
                 dfetch'[i] = 0 /\ all_games'[i] = all_games[i]
       /\ pc' = "done" => SeqToBag(output') = SeqToBag(all_games)

\* C15: from the start of enrichment on, a step changes at most the
\* supplemental count of one record, the one whose detail fetch returns in
\* that step, and a detail fetch is issued for a record once at most; every
\* other field and every other record stay as they are; a record without
\* detail_ref is never fetched nor changed; the sort changes no record, its
\* output holds the same records.
C15_EnrichmentFrame == [][FrameStep]_vars

C15_Witness ==
    /\ pc = "done"
    /\ \E i, j, k \in DOMAIN all_games :
         /\ all_games[i].critic_reviews # None /\ dfetch[i] = 1
         /\ ~HasUrl(all_games[j]) /\ dfetch[j] = 0
         /\ HasUrl(all_games[k]) /\ all_games[k].critic_reviews = None
         /\ dfetch[k] = 1

\* C16: sort_games_by_rank applied to a list it has returned returns a list
\* identical to it, element for element.
C16_SortIdempotent ==
    pc = "resorted" => output = Ok(result.val)

C16_Witness ==
    /\ pc = "resorted"
    /\ Len(input) >= 3 /\ result.val # input
    /\ \E i, j \in DOMAIN result.val :
         /\ i < j /\ Key(result.val[i]) = Key(result.val[j])
         /\ result.val[i] # result.val[j]

\* C17 as stated: no two records of the output are the same item (same
\* rank, title and detail_ref).
Item(g) == <<g.rank, g.title, g.url>>
Count(games, it) == Cardinality({i \in DOMAIN games : Item(games[i]) = it})

C17_NoDuplicateInOutput ==
    pc = "done" =>
       \A i, j \in DOMAIN output : i # j => Item(output[i]) # Item(output[j])

\* C17 amended: the output holds every item as many times as the
\* accumulated PageResults hold it; nothing is removed.
C17_OutputKeepsMultiplicity ==
    pc = "done" =>
       \A listed \in ListedGames :
          /\ Len(output) = Len(listed)
          /\ \A i \in DOMAIN listed :
               Count(output, Item(listed[i])) = Count(listed, Item(listed[i]))

C17_Witness ==
    /\ pc = "done"
    /\ \E i, j \in DOMAIN output : i < j /\ Item(output[i]) = Item(output[j])
    /\ \E p, q \in PageRange :
         /\ p < q /\ q < FirstEmpty /\ PageOk(p) /\ PageOk(q)
         /\ PageResult(p) = PageResult(q) /\ PageResult(p) # <<>>

\* C18: in scrape_games a pacing delay is waited for a page only when its
\* fetch succeeded and gave at least one record: the delays waited are
\* exactly one for each such page already passed, none for a failed page
\* and none for the empty page that ends the traversal.
Paced(p) == task[p] = "returned" /\ Parses(p) /\ ~EmptyResult(p)

C18_SequentialPacingSkippedOnFailure ==
    C = 1 =>
       /\ (pc = "listing" /\ step = "sleep") => Paced(page)
       /\ slept = Cardinality({p \in PageRange : p < page /\ Paced(p)})

C18_Witness ==
    /\ C = 1 /\ pc = "done" /\ slept = 0
    /\ \E p \in PageRange :
         /\ p + 2 \in PageRange
         /\ world[p].kind \in FailureKinds /\ world[p + 1].kind \in FailureKinds
         /\ nfetch[p] = 1 /\ nfetch[p + 1] = 1 /\ nfetch[p + 2] = 1
         /\ EmptyResult(p + 2)

====
